---- MODULE Spec2Model ----
(***************************************************************************)
(* Poseidon Merkle accumulator of zkp_server (class PoseidonMerkleTree and  *)
(* the functions buildMerkleTree, getMerkleProof, verifyMerkleProof).       *)
(*                                                                         *)
(* One PoseidonMerkleTree instance is modelled by the variables leaves,     *)
(* layers, poseidon, timestamp and finalRoot; file is the snapshot          *)
(* poseidon-merkle-tree-data.json; ret is what the last call returned or    *)
(* threw.                                                                   *)
(*                                                                         *)
(* Values.  Poseidon is an opaque collision-resistant hash: a field element *)
(* is written in prefix form as a sequence of integers, <<n + 1>> for the   *)
(* number n and <<0>> \o a \o b for poseidon([a, b]); prefix form is        *)
(* uniquely readable, so two field elements are equal exactly when they     *)
(* were built the same way.  hash() returns F.toString(..), a decimal       *)
(* string, and every use parses it back with BigInt(..): the string is      *)
(* written as the field element it denotes.  JavaScript's null and          *)
(* undefined are NullS / UndefS where a string is expected and NullN /      *)
(* UndefN where a number or an object reference is expected.                *)
(*                                                                         *)
(* getMerkleProof also writes poseidon-proof-<uid>.json; nothing reads that *)
(* file back, and it is left out of the state.                              *)
(***************************************************************************)
EXTENDS Integers, Sequences, FiniteSets, TLC

VARIABLES leaves, layers, poseidon, timestamp, finalRoot, file, ret, builds

vars == <<leaves, layers, poseidon, timestamp, finalRoot, file, ret, builds>>

-----------------------------------------------------------------------------
\* Bounds of the model.

\* Longest entry list given to the constructor.
MaxLeaves == 3

\* Date.now() reads 0 .. MaxTimestamp.
MaxTimestamp == 1

\* buildTree runs at most this many times in one behaviour.
MaxBuilds == 2

-----------------------------------------------------------------------------
\* JavaScript values.

NullS == <<-1>>

UndefS == <<-2>>

NullN == -1

UndefN == -2

\* !x for a number-or-null x: null, undefined and 0 are falsy.
Falsy(x) == x = NullN \/ x = UndefN \/ x = 0

\* BigInt(x) throws a TypeError for null and undefined.
BigIntThrowsS(x) == x = NullS \/ x = UndefS

BigIntThrowsN(x) == x = NullN \/ x = UndefN

\* F.e(BigInt(n)) for a number n >= 0.
FE(n) == <<n + 1>>

\* The UTF-8 bytes of the identifiers "1", "2", ...: one digit each.
UidOf(i) == <<48 + i>>

Uids == { UidOf(i) : i \in 1..(MaxLeaves + 1) }

\* The balance of the i-th entry.
BalanceOf(i) == 1000 * i

Timestamps == 0..MaxTimestamp

\* The entry lists the constructor is given: ["1", 1000], ["2", 2000], ...
\* in order (the shape of the lists in main.js), of every length from 0.
EntryLists ==
  { [i \in 1..n |-> <<UidOf(i), BalanceOf(i)>>] : n \in 0..MaxLeaves }

-----------------------------------------------------------------------------
\* Hashing.

Poseidon(a, b) == <<0>> \o a \o b

\* hash([a, b]) with both inputs already BigInt (the only use in the class).
hash(a, b) == Poseidon(a, b)

\* uidNum of hashLeaf: big-endian packing of the bytes.
RECURSIVE uidNum(_)
uidNum(bytes) ==
  IF bytes = <<>> THEN 0
  ELSE uidNum(SubSeq(bytes, 1, Len(bytes) - 1)) * 256 + bytes[Len(bytes)]

hashLeaf(uid, balance) == hash(FE(uidNum(uid)), FE(balance))

-----------------------------------------------------------------------------
\* buildTree.

\* Layer 0: one node per entry, in input order.
LeafLayer(ls) ==
  [i \in 1..Len(ls) |->
     [hash |-> hashLeaf(ls[i][1], ls[i][2]), uid |-> ls[i][1],
      balance |-> ls[i][2], left |-> UndefN, right |-> UndefN]]

\* right = currentLayer[i + 1] || left, as a 1-based position.
RightOf(cur, l) == IF l + 1 <= Len(cur) THEN l + 1 ELSE l

\* NextLayer with the lone last node of an odd layer promoted unchanged
\* instead of being combined with itself.
NextLayer_Promote(cur) ==
  [j \in 1..((Len(cur) + 1) \div 2) |->
     LET l == 2 * j - 1
     IN  [hash |-> IF l + 1 <= Len(cur) THEN hash(cur[l].hash, cur[l + 1].hash)
                   ELSE cur[l].hash,
          uid |-> UndefS, balance |-> UndefN, left |-> l,
          right |-> RightOf(cur, l)]]

\* One pass of the for loop: pairs (1,2), (3,4), ...
NextLayer(cur) ==
  [j \in 1..((Len(cur) + 1) \div 2) |->
     LET l == 2 * j - 1
         r == RightOf(cur, l)
     IN  [hash |-> hash(cur[l].hash, cur[r].hash), uid |-> UndefS,
          balance |-> UndefN, left |-> l, right |-> r]]

\* The while loop: the layers pushed after currentLayer.
RECURSIVE GrowLayers(_)
GrowLayers(cur) ==
  IF Len(cur) > 1 THEN <<NextLayer(cur)>> \o GrowLayers(NextLayer(cur))
  ELSE <<>>

\* All the layers one run of buildTree pushes.
BuiltLayers(ls) == <<LeafLayer(ls)>> \o GrowLayers(LeafLayer(ls))

\* hashLeaf needs this.F: with poseidon unset the map throws at the first entry.
BuildThrows(ls, ready) == ls # <<>> /\ ~ready

-----------------------------------------------------------------------------
\* getRoot.

\* layers[last][0] is undefined when the last layer is empty: .hash throws.
RootThrows(ls) == Len(ls) > 0 /\ Len(ls[Len(ls)]) = 0

getRoot(ls) == IF Len(ls) = 0 THEN NullS ELSE ls[Len(ls)][1].hash

-----------------------------------------------------------------------------
\* computeFinalRoot.

\* What computeFinalRoot does to finalRoot and what it returns, given the
\* instance's fields: getRoot may throw; a null root or a falsy timestamp
\* returns null and leaves finalRoot alone; hash needs this.F.
\* FinalRootThrows with an unbuilt instance treated as an error.
FinalRootThrows_Unbuilt(ls, ts, ready) ==
  \/ Len(ls) = 0
  \/ RootThrows(ls)
  \/ /\ ~Falsy(ts)
     /\ ~ready

FinalRootThrows(ls, ts, ready) ==
  \/ RootThrows(ls)
  \/ /\ getRoot(ls) # NullS
     /\ ~Falsy(ts)
     /\ ~ready

FinalRootSkips(ls, ts) == getRoot(ls) = NullS \/ Falsy(ts)

FinalRootOf(ls, ts) == hash(getRoot(ls), FE(ts))

-----------------------------------------------------------------------------
\* exportToJSON, JSON.stringify / JSON.parse, initFromJSON.

\* ExportNode with the balance left out of the node literal.
ExportNode_NoBalance(node) ==
  [hash |-> node.hash, uid |-> node.uid, balance |-> UndefN]

\* The node literal of exportToJSON: hash, uid, balance; left and right are
\* not copied.
ExportNode(node) ==
  [hash |-> node.hash, uid |-> node.uid, balance |-> node.balance]

ExportLayers(ls) ==
  [i \in 1..Len(ls) |-> [j \in 1..Len(ls[i]) |-> ExportNode(ls[i][j])]]

\* The object exportToJSON returns (it calls getRoot, which may throw).
exportToJSON(lv, ls, ts, fr) ==
  [merkleRoot |-> getRoot(ls), timestamp |-> ts, finalRoot |-> fr,
   leaves |-> lv, layers |-> ExportLayers(ls), hashFunction |-> "poseidon"]

\* JSON.stringify leaves out the properties whose value is undefined.
StringifyNode(n) ==
  LET keys == {"hash"}
              \cup (IF n.uid # UndefS THEN {"uid"} ELSE {})
              \cup (IF n.balance # UndefN THEN {"balance"} ELSE {})
  IN  [k \in keys |-> n[k]]

\* JSON.stringify of a snapshot.  At the top level an undefined property is
\* left out and reads back as undefined: it is kept as UndefS / UndefN.
JSONstringify(snap) ==
  [snap EXCEPT !.layers =
     [i \in 1..Len(snap.layers) |->
        [j \in 1..Len(snap.layers[i]) |-> StringifyNode(snap.layers[i][j])]]]

\* A parsed node as the class reads it: a missing property is undefined.
ParseNode(j) ==
  [hash |-> j.hash,
   uid |-> IF "uid" \in DOMAIN j THEN j.uid ELSE UndefS,
   balance |-> IF "balance" \in DOMAIN j THEN j.balance ELSE UndefN,
   left |-> UndefN, right |-> UndefN]

JSONparse(text) ==
  [text EXCEPT !.layers =
     [i \in 1..Len(text.layers) |->
        [j \in 1..Len(text.layers[i]) |-> ParseNode(text.layers[i][j])]]]

\* verifyMerkleProof's initFromJSON({ leaves: [], layers: [] }).
BareJSON ==
  [merkleRoot |-> UndefS, timestamp |-> UndefN, finalRoot |-> UndefS,
   leaves |-> <<>>, layers |-> <<>>, hashFunction |-> "poseidon"]

\* The fields initFromJSON copies from jsonData.
LoadedTree(jsonData) ==
  [leaves |-> jsonData.leaves, layers |-> jsonData.layers,
   timestamp |-> jsonData.timestamp, finalRoot |-> jsonData.finalRoot]

\* The instance as a record.
ThisTree ==
  [leaves |-> leaves, layers |-> layers, timestamp |-> timestamp,
   finalRoot |-> finalRoot]

\* What a caller can hand to initFromJSON: the parsed snapshot file, or the
\* bare object of verifyMerkleProof.
JsonInputs ==
  {BareJSON} \cup (IF Len(file) = 0 THEN {} ELSE {JSONparse(file[1])})

-----------------------------------------------------------------------------
\* Return values.

\* ret.val is <<v>> for a returned value v and <<>> for null, undefined and
\* for a call that threw.
Returned(op, v) == [op |-> op, status |-> "return", val |-> v]

Threw(op) == [op |-> op, status |-> "TypeError", val |-> <<>>]

ExtractOps == {"getProofFromStoredData", "getMerkleProof"}

VerifyOps == {"verifyProof", "verifyMerkleProof"}

-----------------------------------------------------------------------------
\* getProofFromStoredData.

\* leafLayer.findIndex(node => node.uid === uid): 0-based, -1 when absent.
FindIndex(layer, uid) ==
  IF \E i \in 1..Len(layer) : layer[i].uid = uid
  THEN (CHOOSE i \in 1..Len(layer) :
          /\ layer[i].uid = uid
          /\ \A k \in 1..(i - 1) : layer[k].uid # uid) - 1
  ELSE -1

\* The walk from the leaf up: layerIndex and nodeIndex are 0-based as in the
\* code; a sibling is recorded when siblingIndex < currentLayer.length.
RECURSIVE ProofPath(_, _, _)
ProofPath(ls, layerIndex, nodeIndex) ==
  IF layerIndex >= Len(ls) - 1 THEN <<>>
  ELSE LET currentLayer == ls[layerIndex + 1]
           isLeftNode == nodeIndex % 2 = 0
           siblingIndex == IF isLeftNode THEN nodeIndex + 1 ELSE nodeIndex - 1
           step == IF siblingIndex < Len(currentLayer)
                   THEN <<[hash |-> currentLayer[siblingIndex + 1].hash,
                           position |-> IF isLeftNode THEN "right" ELSE "left"]>>
                   ELSE <<>>
       IN  step \o ProofPath(ls, layerIndex + 1, nodeIndex \div 2)

\* this.layers[0] is undefined on an instance without layers: findIndex throws.
ProofThrows(t) == Len(t.layers) = 0

ProofIsNull(t, uid) == FindIndex(t.layers[1], uid) = -1

\* The object getProofFromStoredData returns for an identifier it finds.
ProofOf(t, uid) ==
  LET nodeIndex == FindIndex(t.layers[1], uid)
      currentNode == t.layers[1][nodeIndex + 1]
  IN  [uid |-> uid, balance |-> currentNode.balance,
       leafHash |-> currentNode.hash,
       proof |-> ProofPath(t.layers, 0, nodeIndex),
       merkleRoot |-> getRoot(t.layers), timestamp |-> t.timestamp,
       finalRoot |-> t.finalRoot]

\* The identifiers getProofFromStoredData finds in t.
Found(t) ==
  IF ProofThrows(t) THEN {} ELSE { u \in Uids : ~ProofIsNull(t, u) }

\* getMerkleProof's tree: a new instance loaded from the snapshot file.
FileTree == LoadedTree(JSONparse(file[1]))

-----------------------------------------------------------------------------
\* verifyProof.

\* The value handed to verifyProof as its third argument.  "path" is
\* proofData.proof, the array of path elements, as verifyMerkleProof and the
\* demo pass it: an array has no merkleRoot, timestamp or finalRoot.  "object"
\* is the whole proof object, which is not iterable.  "pathWithFields" is the
\* array with the three properties set on it.
ArgShapes == {"path", "object", "pathWithFields"}

ProofArg(p, shape) ==
  [iterable |-> shape # "object",
   items |-> IF shape = "object" THEN <<>> ELSE p.proof,
   merkleRoot |-> IF shape = "path" THEN UndefS ELSE p.merkleRoot,
   timestamp |-> IF shape = "path" THEN UndefN ELSE p.timestamp,
   finalRoot |-> IF shape = "path" THEN UndefS ELSE p.finalRoot]

\* The for..of loop over the path elements, from computedHash = h.
RECURSIVE FoldPath(_, _)
FoldPath(h, items) ==
  IF items = <<>> THEN h
  ELSE FoldPath(IF items[1].position = "left" THEN hash(items[1].hash, h)
                ELSE hash(h, items[1].hash),
                Tail(items))

\* hashLeaf needs this.F; for..of needs an iterable; BigInt(proof.merkleRoot)
\* and BigInt(proof.timestamp) throw on undefined and null.
VerifyThrows(arg, ready) ==
  \/ ~ready
  \/ ~arg.iterable
  \/ BigIntThrowsS(arg.merkleRoot)
  \/ BigIntThrowsN(arg.timestamp)

\* The verdict verifyProof returns when it does not throw.
Verdict(uid, balance, arg) ==
  LET merklePathValid ==
        FoldPath(hashLeaf(uid, balance), arg.items) = arg.merkleRoot
      finalRootValid ==
        hash(arg.merkleRoot, FE(arg.timestamp)) = arg.finalRoot
  IN  [merklePathValid |-> merklePathValid, finalRootValid |-> finalRootValid,
       overallValid |-> merklePathValid /\ finalRootValid]

\* What a call of verifyProof comes to; call records what was passed.
verifyProof(uid, balance, arg, ready, op, call) ==
  IF VerifyThrows(arg, ready)
  THEN [op |-> op, status |-> "TypeError", val |-> <<>>, call |-> call]
  ELSE [op |-> op, status |-> "return",
        val |-> <<Verdict(uid, balance, arg)>>, call |-> call]

-----------------------------------------------------------------------------
\* The proofs a holder presents: one the instance issues, as issued or with
\* one field changed.

TamperKinds ==
  {"none", "uid", "balance", "hash", "position", "root", "timestamp"}

\* Another identifier than uid.
OtherUid(uid) == CHOOSE u \in Uids : u # uid

\* A field element that is no hash of the tree.
ForgedHash == FE(0)

Flip(position) == IF position = "left" THEN "right" ELSE "left"

Tampered(p, kind) ==
  CASE kind = "none" -> {p}
    [] kind = "uid" -> {[p EXCEPT !.uid = OtherUid(p.uid)]}
    [] kind = "balance" -> {[p EXCEPT !.balance = p.balance + 1]}
    [] kind = "hash" ->
         { [p EXCEPT !.proof[k].hash = ForgedHash] : k \in 1..Len(p.proof) }
    [] kind = "position" ->
         { [p EXCEPT !.proof[k].position = Flip(p.proof[k].position)] :
           k \in 1..Len(p.proof) }
    [] kind = "root" -> {[p EXCEPT !.merkleRoot = ForgedHash]}
    [] kind = "timestamp" ->
         IF BigIntThrowsN(p.timestamp) THEN {}
         ELSE {[p EXCEPT !.timestamp = p.timestamp + 1]}

-----------------------------------------------------------------------------
Init ==
  /\ leaves \in EntryLists
  /\ layers = <<>>
  /\ poseidon = FALSE
  /\ timestamp = NullN
  /\ finalRoot = NullS
  /\ file = <<>>
  /\ ret = Returned("constructor", <<>>)
  /\ builds = 0

\* buildTree called on the instance.
buildTree ==
  /\ builds < MaxBuilds
  /\ builds' = builds + 1
  /\ IF BuildThrows(leaves, poseidon)
     THEN /\ ret' = Threw("buildTree")
          /\ UNCHANGED layers
     ELSE /\ layers' = layers \o BuiltLayers(leaves)
          /\ ret' = Returned("buildTree", <<>>)
  /\ UNCHANGED <<leaves, poseidon, timestamp, finalRoot, file>>

\* computeFinalRoot called on the instance.
computeFinalRoot ==
  /\ IF FinalRootThrows(layers, timestamp, poseidon)
     THEN /\ ret' = Threw("computeFinalRoot")
          /\ UNCHANGED finalRoot
     ELSE IF FinalRootSkips(layers, timestamp)
     THEN /\ ret' = Returned("computeFinalRoot", <<>>)
          /\ UNCHANGED finalRoot
     ELSE /\ finalRoot' = FinalRootOf(layers, timestamp)
          /\ ret' = Returned("computeFinalRoot", <<finalRoot'>>)
  /\ UNCHANGED <<leaves, layers, poseidon, timestamp, file, builds>>

\* The fields after init() with the clock reading now, and whether it threw:
\* poseidon is set, timestamp = Date.now(), buildTree, computeFinalRoot.
InitLayers == layers \o BuiltLayers(leaves)

InitEffect(now, op) ==
  /\ poseidon' = TRUE
  /\ timestamp' = now
  /\ layers' = InitLayers
  /\ IF FinalRootThrows(InitLayers, now, TRUE)
     THEN /\ ret' = Threw(op)
          /\ UNCHANGED finalRoot
     ELSE IF FinalRootSkips(InitLayers, now)
     THEN /\ ret' = Returned(op, <<>>)
          /\ UNCHANGED finalRoot
     ELSE /\ finalRoot' = FinalRootOf(InitLayers, now)
          /\ ret' = Returned(op, <<>>)

\* init() called on the instance.
init ==
  /\ builds < MaxBuilds
  /\ builds' = builds + 1
  /\ \E now \in Timestamps : InitEffect(now, "init")
  /\ UNCHANGED <<leaves, file>>

\* initFromJSON(jsonData) called on the instance.
initFromJSON ==
  \E jsonData \in JsonInputs :
    /\ poseidon' = TRUE
    /\ leaves' = LoadedTree(jsonData).leaves
    /\ layers' = LoadedTree(jsonData).layers
    /\ timestamp' = LoadedTree(jsonData).timestamp
    /\ finalRoot' = LoadedTree(jsonData).finalRoot
    /\ ret' = Returned("initFromJSON", <<>>)
    /\ UNCHANGED <<file, builds>>

\* exportToJSON() called on the instance.
exportToJSONCall ==
  /\ ret' = IF RootThrows(layers) THEN Threw("exportToJSON")
            ELSE Returned("exportToJSON",
                          <<exportToJSON(leaves, layers, timestamp, finalRoot)>>)
  /\ UNCHANGED <<leaves, layers, poseidon, timestamp, finalRoot, file, builds>>

\* buildMerkleTree(input): the instance is the one it constructs, so it runs
\* on a fresh instance only; init, then exportToJSON and writeFileSync unless
\* one of them threw.
buildMerkleTree ==
  /\ ret.op = "constructor"
  /\ builds < MaxBuilds
  /\ builds' = builds + 1
  /\ \E now \in Timestamps : InitEffect(now, "buildMerkleTree")
  /\ file' = IF ret'.status = "return"
             THEN <<JSONstringify(exportToJSON(leaves, layers', timestamp',
                                               finalRoot'))>>
             ELSE file
  /\ UNCHANGED leaves

\* getProofFromStoredData(uid) called on the instance.
getProofFromStoredData ==
  /\ \E uid \in Uids :
       ret' = IF ProofThrows(ThisTree) THEN Threw("getProofFromStoredData")
              ELSE IF ProofIsNull(ThisTree, uid)
              THEN Returned("getProofFromStoredData", <<>>)
              ELSE Returned("getProofFromStoredData", <<ProofOf(ThisTree, uid)>>)
  /\ UNCHANGED <<leaves, layers, poseidon, timestamp, finalRoot, file, builds>>

\* getMerkleProof(uid): reads the snapshot file into a new instance and takes
\* the proof from it; readFileSync throws when there is no file.
getMerkleProof ==
  /\ \E uid \in Uids :
       ret' = IF Len(file) = 0
              THEN [op |-> "getMerkleProof", status |-> "ENOENT", val |-> <<>>]
              ELSE IF ProofThrows(FileTree) THEN Threw("getMerkleProof")
              ELSE IF ProofIsNull(FileTree, uid)
              THEN Returned("getMerkleProof", <<>>)
              ELSE Returned("getMerkleProof", <<ProofOf(FileTree, uid)>>)
  /\ UNCHANGED <<leaves, layers, poseidon, timestamp, finalRoot, file, builds>>

\* The proof the last call extracted, when it extracted one.
HoldsProof == ret.op \in ExtractOps /\ Len(ret.val) = 1

\* What a verification is called with: the extracted proof as issued, the
\* proof presented (as issued or with one field changed), and the shape of
\* the third argument.
Call(issued, kind, proofData, shape) ==
  [issued |-> issued, kind |-> kind, proofData |-> proofData, shape |-> shape]

\* tree.verifyProof(proof.uid, proof.balance, <third argument>, proof.root)
\* called on the instance with the proof just extracted (the demo's sequence),
\* as issued or tampered.
verifyProofCall ==
  /\ HoldsProof
  /\ \E kind \in TamperKinds, shape \in ArgShapes :
       \E proofData \in Tampered(ret.val[1], kind) :
         ret' = verifyProof(proofData.uid, proofData.balance,
                            ProofArg(proofData, shape), poseidon, "verifyProof",
                            Call(ret.val[1], kind, proofData, shape))
  /\ UNCHANGED <<leaves, layers, poseidon, timestamp, finalRoot, file, builds>>

\* verifyMerkleProof(uid, balance, proofData) with the proof just extracted:
\* a new instance, initFromJSON of the bare object (which sets poseidon), then
\* verifyProof(uid, balance, proofData.proof, proofData.root).
verifyMerkleProof ==
  /\ HoldsProof
  /\ \E kind \in TamperKinds :
       \E proofData \in Tampered(ret.val[1], kind) :
         ret' = verifyProof(proofData.uid, proofData.balance,
                            ProofArg(proofData, "path"), TRUE,
                            "verifyMerkleProof",
                            Call(ret.val[1], kind, proofData, "path"))
  /\ UNCHANGED <<leaves, layers, poseidon, timestamp, finalRoot, file, builds>>

Next ==
  \/ buildTree
  \/ computeFinalRoot
  \/ init
  \/ initFromJSON
  \/ exportToJSONCall
  \/ buildMerkleTree
  \/ getProofFromStoredData
  \/ getMerkleProof
  \/ verifyProofCall
  \/ verifyMerkleProof

Spec == Init /\ [][Next]_vars

-----------------------------------------------------------------------------
\* Properties.

Unset(fr) == fr = NullS \/ fr = UndefS

\* The instance has layers and a final root.
Finalized == layers # <<>> /\ ~Unset(finalRoot)

\* The last call verified a proof that was extracted from a finalized tree.
VerifiedFinalized == ret.op \in VerifyOps /\ ~Unset(ret.call.issued.finalRoot)

\* The snapshot of the instance as written to and read back from the file.
Reloaded ==
  LoadedTree(JSONparse(JSONstringify(
    exportToJSON(leaves, layers, timestamp, finalRoot))))

\* C1: proof soundness.  A proof extracted from a finalized tree for an
\* identifier present in it, verified untampered with that identifier and
\* its balance, gives merklePathValid and finalRootValid true.
C1_ProofSoundness ==
  (VerifiedFinalized /\ ret.call.kind = "none")
  => /\ ret.status = "return"
     /\ ret.val[1].merklePathValid
     /\ ret.val[1].finalRootValid

\* The instance was built once and finalized with its timestamp, and the last
\* call verified, untampered and with the three fields readable on the path
\* array, a proof this instance issues.
VerifiedOwnProof ==
  /\ VerifiedFinalized
  /\ ret.call.kind = "none"
  /\ ret.call.shape = "pathWithFields"
  /\ leaves # <<>>
  /\ layers = BuiltLayers(leaves)
  /\ ~Falsy(timestamp)
  /\ finalRoot = FinalRootOf(layers, timestamp)
  /\ ret.call.issued.uid \in Found(ThisTree)
  /\ ret.call.issued = ProofOf(ThisTree, ret.call.issued.uid)

\* C1 where verifyProof can read the root, timestamp and finalRoot: soundness
\* still fails for a leaf that buildTree paired with itself, because
\* getProofFromStoredData records no path element for that layer and
\* verifyProof then skips the Hash([h, h]) step.
C1_SoundWhereCallable ==
  VerifiedOwnProof => (ret.status = "return" /\ ret.val[1].overallValid)

\* C1 where every layer below the root gave a path element (no node on the
\* way up was paired with itself): the verdict is valid.
C1_SoundOnFullPaths ==
  (VerifiedOwnProof /\ Len(ret.call.issued.proof) = Len(layers) - 1)
  => (ret.status = "return" /\ ret.val[1].overallValid)

\* C2: tamper detection.  A proof extracted from a finalized tree with exactly
\* one of balance, a path hash, a path position, root or timestamp changed
\* makes verify return a verdict with merklePathValid or finalRootValid false,
\* and overallValid false.
C2_TamperDetected ==
  (/\ VerifiedFinalized
   /\ ret.call.kind \in {"balance", "hash", "position", "root", "timestamp"})
  => /\ ret.status = "return"
     /\ ~ret.val[1].merklePathValid \/ ~ret.val[1].finalRootValid
     /\ ~ret.val[1].overallValid

\* C3: round trip.  For a built and finalized tree and every identifier in it,
\* the proof extracted from the tree loaded from its exported snapshot equals
\* the tree's own proof in every field; and a proof getMerkleProof returned
\* from the file holding that snapshot is the tree's own proof.
C3_RoundTrip ==
  (Finalized /\ ~RootThrows(layers))
  => \A loaded \in {Reloaded} :
       /\ \A uid \in Found(ThisTree) :
            /\ ~ProofThrows(loaded)
            /\ ~ProofIsNull(loaded, uid)
            /\ ProofOf(loaded, uid) = ProofOf(ThisTree, uid)
       /\ (/\ ret.op = "getMerkleProof"
           /\ Len(ret.val) = 1
           /\ FileTree = loaded)
          => /\ ret.val[1].uid \in Found(ThisTree)
             /\ ret.val[1] = ProofOf(ThisTree, ret.val[1].uid)

C3_Witness ==
  /\ Finalized
  /\ Len(leaves) = 3
  /\ ret.op = "getMerkleProof"
  /\ Len(ret.val) = 1
  /\ FileTree = Reloaded
  /\ \E k \in 1..Len(layers[2]) : layers[2][k].left # UndefN
  /\ Len(ret.val[1].proof) = 2

\* C4: tree shape.  Whenever the instance has layers, layer 0 has one node per
\* entry in input order, every further layer has ceil(previous / 2) nodes, and
\* the last layer has exactly one node.
C4_TreeShape ==
  layers # <<>>
  => /\ Len(layers[1]) = Len(leaves)
     /\ \A i \in 1..Len(leaves) :
          /\ layers[1][i].uid = leaves[i][1]
          /\ layers[1][i].balance = leaves[i][2]
     /\ \A i \in 2..Len(layers) :
          Len(layers[i]) = (Len(layers[i - 1]) + 1) \div 2
     /\ Len(layers[Len(layers)]) = 1

\* The layers the step pushed.
Pushed == SubSeq(layers', Len(layers) + 1, Len(layers'))

\* The step ran buildTree (alone, or inside init or buildMerkleTree).
BuildStep ==
  /\ ret'.op \in {"buildTree", "init", "buildMerkleTree"}
  /\ Len(layers') > Len(layers)

\* Node j of layer i > 0 is the hash of nodes 2j-1 and 2j of the layer below,
\* and of node 2j-1 with itself when the layer below ends there.
PairRule(new) ==
  \A i \in 2..Len(new) :
    /\ Len(new[i]) = (Len(new[i - 1]) + 1) \div 2
    /\ \A j \in 1..Len(new[i]) :
         new[i][j].hash =
           IF 2 * j <= Len(new[i - 1])
           THEN hash(new[i - 1][2 * j - 1].hash, new[i - 1][2 * j].hash)
           ELSE hash(new[i - 1][2 * j - 1].hash, new[i - 1][2 * j - 1].hash)

\* C5: odd-layer duplication.  In every run of buildTree the layers it pushes
\* follow the pair rule, the last node of an odd layer being combined with
\* itself; for 3 leaves the root is Hash([Hash([l0, l1]), Hash([l2, l2])]).
C5_OddDuplication ==
  [][BuildStep =>
       /\ PairRule(Pushed)
       /\ Len(leaves) = 3 =>
            getRoot(Pushed) =
              hash(hash(Pushed[1][1].hash, Pushed[1][2].hash),
                   hash(Pushed[1][3].hash, Pushed[1][3].hash))]_vars

C5_Witness ==
  /\ ret.op = "init"
  /\ ret.status = "return"
  /\ Len(leaves) = 3
  /\ Len(layers) = 3
  /\ layers[2][2].hash = hash(layers[1][3].hash, layers[1][3].hash)
  /\ layers[2][2].left = layers[2][2].right

\* C6: buildTree on an empty entry list fails, and the instance is left
\* without any layer.
C6_EmptyBuildFails ==
  (ret.op = "buildTree" /\ leaves = <<>>)
  => /\ ret.status # "return"
     /\ layers = <<>>

C8_FinalRootBinding ==
  (/\ ret.op = "computeFinalRoot"
   /\ ret.status = "return"
   /\ layers # <<>>
   /\ timestamp >= 0)
  => /\ finalRoot = FinalRootOf(layers, timestamp)
     /\ \A uid \in Found(ThisTree) :
          /\ ProofOf(ThisTree, uid).merkleRoot = getRoot(layers)
          /\ ProofOf(ThisTree, uid).timestamp = timestamp
          /\ ProofOf(ThisTree, uid).finalRoot = finalRoot

\* C9: verify never throws.  Every verification returns a verdict whose
\* merklePathValid is (recomputed path hash = proof root), finalRootValid is
\* (Hash([proof root, proof timestamp]) = proof finalRoot) and overallValid
\* is their conjunction.
C9_VerifyReturnsVerdict ==
  ret.op \in VerifyOps
  => /\ ret.status = "return"
     /\ ret.val[1].merklePathValid =
          (FoldPath(hashLeaf(ret.call.proofData.uid, ret.call.proofData.balance),
                    ret.call.proofData.proof) = ret.call.proofData.merkleRoot)
     /\ ret.val[1].finalRootValid =
          (hash(ret.call.proofData.merkleRoot,
                FE(ret.call.proofData.timestamp)) = ret.call.proofData.finalRoot)
     /\ ret.val[1].overallValid =
          (ret.val[1].merklePathValid /\ ret.val[1].finalRootValid)

\* C10: the lifecycle is forward only.  Once the instance is finalized, no
\* call changes its layers (and so its root), timestamp or finalRoot.
C10_ForwardOnly ==
  [][Finalized =>
       /\ layers' = layers
       /\ timestamp' = timestamp
       /\ finalRoot' = finalRoot]_vars

====
